---- MODULE Spec2Model ----
(***************************************************************************)
(* A model of generate_html.py, the static gallery generator: the row      *)
(* table is read, reversed and normalised, one detail page is written per  *)
(* row and the rows are paginated into index pages.  Text (table cells,    *)
(* file names) is a sequence of one-character strings, so that the         *)
(* conversions of the program (int(), str.strip, str.split, the regular    *)
(* expressions, os.path.splitext) are computed and not assumed.            *)
(***************************************************************************)
EXTENDS Integers, Sequences, FiniteSets, TLC

VARIABLES
    \* scale_dimensions(width, height): its two arguments and what it returns
    width, height, scaled,
    \* one input cell of a row (row["input<i>"]) and what the parsers return for it
    input_value, type_name, parsed,
    \* the column and the button id the cell is rendered for, the page kind,
    \* and the controls and the bindings generated for the cell
    input_idx, button_id, rendered, controls, bindings,
    \* the generation run (main): the files it reads,
    csv_exists, table, head_exists, riv_dir,
    \* its position, its locals and the exception that ended it,
    pc, rows, row_i, total_pages, page_idx, error,
    \* and the output files it opened for writing, in order
    written,
    \* the composition of one page: the page kind, its rows, the arguments of
    \* its navigation, whether the preview file of a detail page exists, and
    \* the documents of two compositions from these inputs
    page_kind, page_rows, nav_args, preview_exists, composed, doc1, doc2,
    \* a colour control of a loaded page: the colour the user has picked (its
    \* red, green and blue), the value of the <input type="color"> element,
    \* the value the binding has written to the view-model colour property,
    \* and whether onLoad has run
    picked, color_value, argb, color_loaded

scaleVars == <<width, height, scaled>>
parseVars == <<input_value, type_name, parsed, input_idx, button_id, rendered, controls, bindings>>
mainVars == <<csv_exists, table, head_exists, riv_dir,
              pc, rows, row_i, total_pages, page_idx, error, written>>
vars == <<width, height, scaled,
          input_value, type_name, parsed, input_idx, button_id, rendered, controls, bindings,
          csv_exists, table, head_exists, riv_dir,
          pc, rows, row_i, total_pages, page_idx, error, written,
          page_kind, page_rows, nav_args, preview_exists, composed, doc1, doc2,
          picked, color_value, argb, color_loaded>>
composeVars == <<page_kind, page_rows, nav_args, preview_exists, composed, doc1, doc2>>
colourVars == <<picked, color_value, argb, color_loaded>>

(***************************************************************************)
(* Text                                                                    *)
(***************************************************************************)

\* Python's None: the value csv.DictReader gives a cell the row does not have
\* (restval), and the value of "no default".
Nil == <<"None">>

SetMin(S) == CHOOSE x \in S : \A y \in S : x <= y
SetMax(S) == CHOOSE x \in S : \A y \in S : x >= y

\* All texts over the characters A of length at most n.
TextsUpTo(A, n) == UNION {[1..k -> A] : k \in 0..n}

\* str.strip(): leading and trailing blanks removed.
strip(s) ==
    LET keep == {k \in 1..Len(s) : s[k] # " "}
    IN  IF keep = {} THEN <<>> ELSE SubSeq(s, SetMin(keep), SetMax(keep))

Digits == <<"0", "1", "2", "3", "4", "5", "6", "7", "8", "9">>
IsDigit(c) == \E d \in 1..10 : Digits[d] = c
DigitVal(c) == (CHOOSE d \in 1..10 : Digits[d] = c) - 1

RECURSIVE DecimalValue(_)
DecimalValue(s) ==
    IF s = <<>> THEN 0 ELSE 10 * DecimalValue(SubSeq(s, 1, Len(s) - 1)) + DigitVal(s[Len(s)])

\* The digits of an int() literal: the stripped text without its sign.
IntDigits(s) ==
    LET t == strip(s)
    IN  IF t # <<>> /\ t[1] \in {"-", "+"} THEN Tail(t) ELSE t

\* int(x) returns: x is text made of an optional sign and at least one digit,
\* blanks around it allowed.  int(None) raises TypeError, any other text
\* ValueError; scale_dimensions catches both.
IsIntText(s) ==
    /\ s # Nil
    /\ IntDigits(s) # <<>>
    /\ \A k \in 1..Len(IntDigits(s)) : IsDigit(IntDigits(s)[k])

IntValue(s) ==
    LET t == strip(s)
    IN  IF t[1] = "-" THEN 0 - DecimalValue(IntDigits(s)) ELSE DecimalValue(IntDigits(s))

(***************************************************************************)
(* scale_dimensions                                                        *)
(***************************************************************************)

DISPLAY_WIDTH == 200

\* A value scale_dimensions returns: an int, or the raw cell it was given.
IntVal(n) == [int |-> TRUE, n |-> n, raw |-> <<>>]
RawVal(s) == [int |-> FALSE, n |-> 0, raw |-> s]

\* 200 / width is a double.  It is the exact quotient when the odd part of
\* width divides 25 (the quotient is then a dyadic rational of a few bits).
RECURSIVE OddPart(_)
OddPart(n) == IF n % 2 = 0 THEN OddPart(n \div 2) ELSE n

ScaleIsExact(w) == 25 % OddPart(IF w < 0 THEN 0 - w ELSE w) = 0

\* A mutant of RoundQuotient: the quotient truncated, int(height * scale).
RoundQuotientTruncates(num, den, exact, up) ==
    LET n == IF den < 0 THEN 0 - num ELSE num
        d == IF den < 0 THEN 0 - den ELSE den
        fl == n \div d
    IN  IF n >= 0 \/ fl * d = n THEN fl ELSE fl + 1

\* int(round(height * scale)), scale = 200 / width, for the exact quotient
\* num / den.  round() takes the nearest whole number, and of two equally near
\* ones the even one.  When the exact quotient lies half way and the double
\* 200 / width is not exact, the double product lies a rounding error above or
\* below the half (up): the program then returns one of the two neighbours.
RoundQuotient(num, den, exact, up) ==
    LET n == IF den < 0 THEN 0 - num ELSE num
        d == IF den < 0 THEN 0 - den ELSE den
        fl == n \div d
        rem == n - fl * d
    IN  IF 2 * rem < d THEN fl
        ELSE IF 2 * rem > d THEN fl + 1
        ELSE IF exact THEN (IF fl % 2 = 0 THEN fl ELSE fl + 1)
        ELSE IF up THEN fl + 1 ELSE fl

\* scale_dimensions(width, height) with SCALE_TO_200PX = True.  exc names the
\* exception that leaves the function ("none": it returns).
scale_dimensions(w, h, up) ==
    IF ~(IsIntText(w) /\ IsIntText(h))
    THEN [exc |-> "none", width |-> RawVal(w), height |-> RawVal(h)]
    ELSE IF IntValue(w) = DISPLAY_WIDTH
    THEN [exc |-> "none", width |-> IntVal(IntValue(w)), height |-> IntVal(IntValue(h))]
    ELSE IF IntValue(w) = 0
    THEN [exc |-> "ZeroDivisionError", width |-> RawVal(w), height |-> RawVal(h)]
    ELSE [exc |-> "none", width |-> IntVal(DISPLAY_WIDTH),
          height |-> IntVal(RoundQuotient(IntValue(h) * DISPLAY_WIDTH, IntValue(w),
                                          ScaleIsExact(IntValue(w)), up))]

(***************************************************************************)
(* parse_input_type_name, parse_input_spec                                 *)
(***************************************************************************)

NUM == <<"n", "u", "m">>
TXT == <<"t", "x", "t">>
BOL == <<"b", "o", "l">>
COL == <<"c", "o", "l">>
V_NUM == <<"v", "_", "n", "u", "m">>
V_BOL == <<"v", "_", "b", "o", "l">>
IMG == <<"i", "m", "g">>
LIST == <<"l", "i", "s", "t">>

\* The kinds parse_input_field and the binding generators have a branch for.
RecognizedTags == {NUM, TXT, BOL, COL, V_NUM, V_BOL, IMG, LIST}

Positions(s, c) == {k \in 1..Len(s) : s[k] = c}
Contains(s, c) == Positions(s, c) # {}

\* s.split(c, 1): the text before and after the first c.
BeforeFirst(s, c) == SubSeq(s, 1, SetMin(Positions(s, c)) - 1)
AfterFirst(s, c) == SubSeq(s, SetMin(Positions(s, c)) + 1, Len(s))

\* type_part, name_part = s.split(":", 1), both stripped, for s holding ":".
SplitTypeName(s) == [type |-> strip(BeforeFirst(s, ":")), name |-> strip(AfterFirst(s, ":"))]

\* A mutant of parse_input_type_name: a tag that is not a recognized kind falls
\* back to the numeric kind, with the whole text as the name.
parse_input_type_name_fallback(v) ==
    IF v = Nil \/ v = <<>> THEN [type |-> Nil, name |-> Nil]
    ELSE IF Contains(strip(v), ":") /\ SplitTypeName(strip(v)).type \in RecognizedTags
    THEN SplitTypeName(strip(v))
    ELSE [type |-> NUM, name |-> strip(v)]

\* parse_input_type_name(input_value): (type, name).
parse_input_type_name(v) ==
    IF v = Nil \/ v = <<>> THEN [type |-> Nil, name |-> Nil]
    ELSE IF Contains(strip(v), ":") THEN SplitTypeName(strip(v))
    ELSE [type |-> NUM, name |-> strip(strip(v))]

\* re.match(r'^(.*)\(([^()]*)\)\s*$', name) for a name that ends with ")": the
\* greedy (.*) ends at the last "(", and the match exists when no parenthesis
\* lies between that "(" and the final ")".
LastOpen(name) == SetMax(Positions(name, "("))
SuffixMatches(name) ==
    \A k \in (LastOpen(name) + 1)..(Len(name) - 1) : name[k] \notin {"(", ")"}

\* The match of the name of a (type, name) pair tn against the pattern.
DefaultMatches(tn) ==
    /\ tn.name # Nil /\ tn.name # <<>>
    /\ tn.name[Len(tn.name)] = ")" /\ Contains(tn.name, "(")
    /\ SuffixMatches(tn.name)

\* The name and the default of a (type, name) pair tn: the stripped groups of
\* the match when the name matches, else the name and None.
SplitDefault(tn) ==
    IF DefaultMatches(tn)
    THEN [type |-> tn.type,
          name |-> strip(SubSeq(tn.name, 1, LastOpen(tn.name) - 1)),
          default |-> strip(SubSeq(tn.name, LastOpen(tn.name) + 1, Len(tn.name) - 1))]
    ELSE [type |-> tn.type, name |-> tn.name, default |-> Nil]

\* SplitDefault with the groups of the match taken as they stand.
SplitDefaultUnstripped(tn) ==
    IF DefaultMatches(tn)
    THEN [type |-> tn.type,
          name |-> SubSeq(tn.name, 1, LastOpen(tn.name) - 1),
          default |-> SubSeq(tn.name, LastOpen(tn.name) + 1, Len(tn.name) - 1)]
    ELSE [type |-> tn.type, name |-> tn.name, default |-> Nil]

\* A mutant of parse_input_spec: the groups of the match are not stripped.
parse_input_spec_unstripped(v) == SplitDefaultUnstripped(parse_input_type_name(v))

\* parse_input_spec(input_value): (type, name_without_default, default or None).
parse_input_spec(v) == SplitDefault(parse_input_type_name(v))

(***************************************************************************)
(* Controls: parse_input_field, collect_input_fields                       *)
(***************************************************************************)

INPUT_COLUMNS == 6
INPUT_RANGE == 1..INPUT_COLUMNS

\* str(n) for n >= 0, as an f-string writes it.
RECURSIVE StrOfNat(_)
StrOfNat(n) ==
    IF n < 10 THEN <<Digits[n + 1]>> ELSE StrOfNat(n \div 10) \o <<Digits[(n % 10) + 1]>>

BTN == <<"b", "t", "n">>
BTN_MAIN == <<"b", "t", "n", "_", "m", "a", "i", "n">>
BTN_PREVIEW == <<"b", "t", "n", "_", "p", "r", "e", "v", "i", "e", "w">>
INPUT_ID_INFIX == <<"_", "i", "n", "p", "u", "t">>

\* A mutant of ButtonId: the position of the asset is left out of the id.
ButtonIdOfPage(idx) == BTN \o StrOfNat(0)

\* f"btn{idx}" and f"{button_id}_input{input_idx}"
ButtonId(idx) == BTN \o StrOfNat(idx)
InputId(prefix, i) == prefix \o INPUT_ID_INFIX \o StrOfNat(i)

UpperLetters == <<"A", "B", "C", "D", "E", "F", "G", "H", "I", "J", "K", "L", "M",
                  "N", "O", "P", "Q", "R", "S", "T", "U", "V", "W", "X", "Y", "Z">>
LowerLetters == <<"a", "b", "c", "d", "e", "f", "g", "h", "i", "j", "k", "l", "m",
                  "n", "o", "p", "q", "r", "s", "t", "u", "v", "w", "x", "y", "z">>

\* str.lower()
lower(s) ==
    [k \in 1..Len(s) |->
        IF \E u \in 1..26 : UpperLetters[u] = s[k]
        THEN LowerLetters[CHOOSE u \in 1..26 : UpperLetters[u] = s[k]]
        ELSE s[k]]

\* The defaults of a v_bol cell that check its checkbox.
CheckedWords ==
    {<<"t", "r", "u", "e">>, <<"1">>, <<"y", "e", "s">>, <<"y">>, <<"o", "n">>,
     <<"c", "h", "e", "c", "k", "e", "d">>}

HexDigits == <<"0", "1", "2", "3", "4", "5", "6", "7", "8", "9", "a", "b", "c", "d", "e", "f">>

RECURSIVE HexOfWidth(_, _)
HexOfWidth(n, w) ==
    IF w = 0 THEN <<>> ELSE HexOfWidth(n \div 16, w - 1) \o <<HexDigits[(n % 16) + 1]>>

\* random_color_hex() for the draw n of random.randint(0, 0xFFFFFF)
random_color_hex(n) == <<"#">> \o HexOfWidth(n, 6)

\* What parse_input_field returns: the <input> element it writes (its type,
\* id, label and value attribute; value None: no value attribute), or the
\* empty text.
NoControl == [input |-> "", id |-> <<>>, label |-> <<>>, value |-> Nil, checked |-> FALSE]
Control(input, id, label, value, checked) ==
    [input |-> input, id |-> id, label |-> label, value |-> value, checked |-> checked]

OrElse(default, other) == IF default # Nil THEN default ELSE other

\* A mutant of FieldOf: a numeric field without a default starts from a draw.
FieldOfDrawnDefault(sp, id, rnd) ==
    IF sp.type = LIST \/ sp.type = Nil \/ sp.type = <<>> THEN NoControl
    ELSE IF sp.type = NUM
    THEN Control("number", id, sp.name, OrElse(sp.default, StrOfNat(rnd)), FALSE)
    ELSE IF sp.type = V_NUM
    THEN Control("number", id, sp.name, OrElse(sp.default, <<"0">>), FALSE)
    ELSE IF sp.type = TXT THEN Control("text", id, sp.name, Nil, FALSE)
    ELSE IF sp.type = BOL THEN Control("checkbox", id, sp.name, Nil, FALSE)
    ELSE IF sp.type = COL
    THEN Control("color", id, sp.name, random_color_hex(rnd), FALSE)
    ELSE IF sp.type = V_BOL
    THEN Control("checkbox", id, sp.name, Nil,
                 sp.default # Nil /\ lower(strip(sp.default)) \in CheckedWords)
    ELSE IF sp.type = IMG
    THEN Control("text", id, sp.name, OrElse(sp.default, <<>>), FALSE)
    ELSE NoControl

\* The branches of parse_input_field for the parsed cell sp and the element
\* id: the control of the kind, or the empty text.
FieldOf(sp, id, rnd) ==
    IF sp.type = LIST \/ sp.type = Nil \/ sp.type = <<>> THEN NoControl
    ELSE IF sp.type = NUM
    THEN Control("number", id, sp.name, OrElse(sp.default, <<"8", "0">>), FALSE)
    ELSE IF sp.type = V_NUM
    THEN Control("number", id, sp.name, OrElse(sp.default, <<"0">>), FALSE)
    ELSE IF sp.type = TXT THEN Control("text", id, sp.name, Nil, FALSE)
    ELSE IF sp.type = BOL THEN Control("checkbox", id, sp.name, Nil, FALSE)
    ELSE IF sp.type = COL
    THEN Control("color", id, sp.name, random_color_hex(rnd), FALSE)
    ELSE IF sp.type = V_BOL
    THEN Control("checkbox", id, sp.name, Nil,
                 sp.default # Nil /\ lower(strip(sp.default)) \in CheckedWords)
    ELSE IF sp.type = IMG
    THEN Control("text", id, sp.name, OrElse(sp.default, <<>>), FALSE)
    ELSE NoControl

\* A mutant of parse_input_field: a kind without a branch of its own is
\* rendered as a numeric field.
parse_input_field_else_num(v, i, prefix, rnd) ==
    IF parse_input_spec(v).type \in {LIST, Nil, <<>>} THEN NoControl
    ELSE Control("number", InputId(prefix, i), parse_input_spec(v).name,
                 OrElse(parse_input_spec(v).default, <<"8", "0">>), FALSE)

\* parse_input_field(input_value, input_idx, button_id); rnd is the draw of
\* random.randint a colour cell makes.
parse_input_field(v, i, prefix, rnd) == FieldOf(parse_input_spec(v), InputId(prefix, i), rnd)

\* The cells collect_input_fields and make_animation_inputs render.
IsFilled(v) == v # Nil /\ strip(v) # <<>>
\* The cells for which "not input_value" is false.
IsTruthy(v) == v # Nil /\ v # <<>>

\* What a returned control adds to the joined text.
Joined(control) == IF control # NoControl THEN <<control>> ELSE <<>>

\* One cell's share of collect_input_fields / make_animation_inputs: the
\* joined text holds the control, or nothing.
CellControls(v, i, prefix, rnd) ==
    IF IsFilled(v) THEN Joined(parse_input_field(v, i, prefix, rnd)) ELSE <<>>

(***************************************************************************)
(* Bindings: generate_text_input_js, generate_rive_js_block,               *)
(* generate_animation_controls_js, make_input_js                           *)
(***************************************************************************)

\* A statement of the generated script:
\*   lookup     let f = document.getElementById(source)
\*   find       let o = inputs.find(input => input.name === name)
\*   listen     f.addEventListener(event, ...) writing the property (api, name)
\*   assign     the property (api, name) written once, when the animation loads
\*   enumerate  the instances of the list (api, name) visited, nothing written
Stmt(op, source, event, api, name) ==
    [op |-> op, source |-> source, event |-> event, api |-> api, name |-> name]

\* re.match(r'^([^\[]+)\[(.+)\]$', name_spec)
ListMatches(name) ==
    /\ name # Nil /\ Contains(name, "[")
    /\ SetMin(Positions(name, "[")) >= 2
    /\ name[Len(name)] = "]"
    /\ Len(name) >= SetMin(Positions(name, "[")) + 2
ListName(name) == strip(SubSeq(name, 1, SetMin(Positions(name, "[")) - 1))
ListInner(name) == strip(SubSeq(name, SetMin(Positions(name, "[")) + 1, Len(name) - 1))

\* A mutant of parse_list_inner: the inner kind is numeric whatever is written.
parse_list_inner_num_only(spec) == [type |-> NUM, name |-> strip(spec)]

\* parse_list_inner(spec): (inner_type, inner_name)
parse_list_inner(spec) ==
    IF Contains(strip(spec), ":")
    THEN [type |-> strip(BeforeFirst(strip(spec), ":")), name |-> strip(AfterFirst(strip(spec), ":"))]
    ELSE [type |-> NUM, name |-> strip(spec)]

\* The branches of generate_text_input_js for the parsed cell sp and the
\* element id.
TextInputJsOf(sp, id) ==
    IF sp.type = TXT
    THEN <<Stmt("lookup", id, "", "", <<>>),
           Stmt("listen", id, "input", "vmi.string", sp.name)>>
    ELSE IF sp.type = COL
    THEN <<Stmt("lookup", id, "", "", <<>>),
           Stmt("assign", id, "", "vmi.color", sp.name),
           Stmt("listen", id, "input", "vmi.color", sp.name)>>
    ELSE IF sp.type = V_NUM
    THEN <<Stmt("lookup", id, "", "", <<>>),
           Stmt("listen", id, "input", "vmi.number", sp.name),
           Stmt("assign", id, "", "vmi.number", sp.name)>>
    ELSE IF sp.type = V_BOL
    THEN <<Stmt("lookup", id, "", "", <<>>),
           Stmt("listen", id, "change", "vmi.boolean", sp.name),
           Stmt("assign", id, "", "vmi.boolean", sp.name)>>
    ELSE IF sp.type = IMG
    THEN <<Stmt("lookup", id, "", "", <<>>),
           Stmt("listen", id, "change", "vmi.image", sp.name),
           Stmt("assign", id, "", "vmi.image", sp.name)>>
    ELSE IF sp.type = LIST /\ sp.name # <<>> /\ ListMatches(sp.name)
            /\ parse_list_inner(ListInner(sp.name)).type = NUM
    THEN <<Stmt("enumerate", <<>>, "", "vmi.list", ListName(sp.name))>>
    ELSE <<>>

\* One cell's share of generate_text_input_js(row, prefix, rive_var).
TextInputJs(v, i, prefix) ==
    IF ~IsTruthy(v) THEN <<>> ELSE TextInputJsOf(parse_input_spec(v), InputId(prefix, i))

\* generate_rive_js_block skips these kinds: generate_text_input_js has them.
SkippedInBlock == {TXT, COL, V_NUM, V_BOL, LIST}

\* The state-machine statements of generate_rive_js_block for the parsed cell
\* sp and the element id.
RiveBlockJsOf(sp, id) ==
    IF sp.type \in SkippedInBlock THEN <<>>
    ELSE <<Stmt("lookup", id, "", "", <<>>), Stmt("find", <<>>, "", "sm", sp.name)>>
         \o (IF sp.type = NUM THEN <<Stmt("listen", id, "input", "sm", sp.name)>>
             ELSE IF sp.type = BOL THEN <<Stmt("listen", id, "change", "sm", sp.name)>>
             ELSE <<>>)

\* One cell's share of the state-machine part of generate_rive_js_block, which
\* writes the script of an index page (state_machine is set for every row).
RiveBlockJs(v, i, prefix) ==
    IF ~IsTruthy(v) \/ strip(v) = <<>> THEN <<>>
    ELSE RiveBlockJsOf(parse_input_spec(v), InputId(prefix, i))

\* make_input_js(input_type, ...), called for num and bol
make_input_js(type, name, id) ==
    IF type = NUM
    THEN <<Stmt("assign", id, "", "sm", name), Stmt("listen", id, "input", "sm", name)>>
    ELSE IF type = BOL THEN <<Stmt("listen", id, "change", "sm", name)>>
    ELSE IF type = TXT THEN <<Stmt("listen", id, "input", "sm", name)>>
    ELSE IF type = COL THEN <<Stmt("listen", id, "input", "sm", name)>>
    ELSE <<>>

\* The statements of generate_animation_controls_js for the parsed cell sp
\* and the element id.
AnimationControlsJsOf(sp, id) ==
    IF sp.type \in {NUM, BOL}
    THEN <<Stmt("lookup", id, "", "", <<>>), Stmt("find", <<>>, "", "sm", sp.name)>>
         \o make_input_js(sp.type, sp.name, id)
    ELSE <<>>

\* One cell's share of generate_animation_controls_js, which writes the
\* state-machine bindings of a detail page; prefix is "btn_" + canvas_type.
AnimationControlsJs(v, i, prefix) ==
    IF ~IsTruthy(v) THEN <<>>
    ELSE AnimationControlsJsOf(parse_input_spec(v), InputId(prefix, i))

\* The statements written for one cell on an index page and on a detail page.
IndexCellJs(v, i, prefix) == TextInputJs(v, i, prefix) \o RiveBlockJs(v, i, prefix)
DetailCellJs(v, i, prefix) == TextInputJs(v, i, prefix) \o AnimationControlsJs(v, i, prefix)

(***************************************************************************)
(* The script of a colour binding, as the browser runs it                  *)
(***************************************************************************)

\* String.prototype.replace("#", ""): the first "#" removed.
replace_hash(s) ==
    IF Contains(s, "#")
    THEN SubSeq(s, 1, SetMin(Positions(s, "#")) - 1)
         \o SubSeq(s, SetMin(Positions(s, "#")) + 1, Len(s))
    ELSE s

\* String.prototype.toUpperCase()
toUpperCase(s) ==
    [k \in 1..Len(s) |->
        IF \E u \in 1..26 : LowerLetters[u] = s[k]
        THEN UpperLetters[CHOOSE u \in 1..26 : LowerLetters[u] = s[k]]
        ELSE s[k]]

UpperHexDigits ==
    <<"0", "1", "2", "3", "4", "5", "6", "7", "8", "9", "A", "B", "C", "D", "E", "F">>
IsHexDigit(c) == \E d \in 1..16 : UpperHexDigits[d] = c \/ HexDigits[d] = c
HexDigitVal(c) == (CHOOSE d \in 1..16 : UpperHexDigits[d] = c \/ HexDigits[d] = c) - 1

RECURSIVE HexValue(_)
HexValue(s) ==
    IF s = <<>> THEN 0 ELSE HexValue(SubSeq(s, 1, Len(s) - 1)) * 16 + HexDigitVal(s[Len(s)])

\* A JavaScript number that is a whole number: 65536 * hi + lo with lo in
\* 0..65535 (a 32-bit value does not fit the integers of the model checker).
Number(hi, lo) == [hi |-> hi, lo |-> lo]
\* NaN, for parseInt of a text that does not start with a digit.
NaN == [hi |-> "NaN", lo |-> "NaN"]

\* The value of the hex digits s: the last four digits are lo, the digits
\* before them hi.
HexNumber(s) ==
    IF Len(s) <= 4 THEN Number(0, HexValue(s))
    ELSE Number(HexValue(SubSeq(s, 1, Len(s) - 4)), HexValue(SubSeq(s, Len(s) - 3, Len(s))))

\* parseInt(s, 16): the value of the longest prefix of hex digits.
parseInt16(s) ==
    IF s = <<>> \/ ~IsHexDigit(s[1]) THEN NaN
    ELSE HexNumber(SubSeq(s, 1, SetMax({k \in 1..Len(s) : \A j \in 1..k : IsHexDigit(s[j])})))

\* A mutant of ColourArgb: the alpha byte is not put in front.
ColourArgbWithoutAlpha(value) == parseInt16(toUpperCase(replace_hash(value)))

\* let hex = field.value.replace("#", "");
\* let argb = parseInt("FF" + hex.toUpperCase(), 16);
ColourArgb(value) == parseInt16(<<"F", "F">> \o toUpperCase(replace_hash(value)))

\* The value of an <input type="color"> whose colour is (r, g, b): "#rrggbb"
\* in lower-case hex digits.
ColourValue(r, g, b) == <<"#">> \o HexOfWidth(r, 2) \o HexOfWidth(g, 2) \o HexOfWidth(b, 2)

(***************************************************************************)
(* The generation run: main, make_animation_page, write_main_page          *)
(***************************************************************************)

ANIMATIONS_PER_PAGE == 8

STATE_MACHINE_1 ==
    <<"S", "t", "a", "t", "e", " ", "M", "a", "c", "h", "i", "n", "e", " ", "1">>
DOT_HTML == <<".", "h", "t", "m", "l">>
INDEX_HTML == <<"i", "n", "d", "e", "x", ".", "h", "t", "m", "l">>
PAGE == <<"p", "a", "g", "e">>
PAGES_DIR == <<"p", "a", "g", "e", "s", "/">>
PREVIEW_RIV == <<"_", "p", "r", "e", "v", "i", "e", "w", ".", "r", "i", "v">>

\* A mutant of Reversed: the rows are kept in file order.
NotReversed(seq) == seq

\* list(reader)[::-1]
Reversed(seq) == [k \in 1..Len(seq) |-> seq[Len(seq) + 1 - k]]

\* A mutant of NormalizeRow: a state_machine of blanks only is kept.
NormalizeRowEmptyOnly(row) ==
    IF row.state_machine = Nil \/ row.state_machine = <<>>
    THEN [row EXCEPT !.state_machine = STATE_MACHINE_1]
    ELSE row

\* The body of the normalisation loop of main, for one row.
NormalizeRow(row) ==
    IF row.state_machine = Nil \/ row.state_machine = <<>> \/ strip(row.state_machine) = <<>>
    THEN [row EXCEPT !.state_machine = STATE_MACHINE_1]
    ELSE row

\* The rows main works on: the table reversed, every row normalised.
ProcessedRows(t) == [k \in 1..Len(t) |-> NormalizeRow(Reversed(t)[k])]

\* os.path.splitext(src)[0] for a file name without directory part: the name
\* up to its last dot, unless only dots precede that dot.
splitext_root(src) ==
    IF /\ Contains(src, ".")
       /\ \E k \in 1..(SetMax(Positions(src, ".")) - 1) : src[k] # "."
    THEN SubSeq(src, 1, SetMax(Positions(src, ".")) - 1)
    ELSE src

\* os.path.splitext(src)[1]
splitext_ext(src) == SubSeq(src, Len(splitext_root(src)) + 1, Len(src))

\* A mutant of DetailPath: the page is named after the extension of the source
\* file, splitext(src)[1], not after its root.
DetailPathFromExt(row) == PAGES_DIR \o splitext_ext(row.src) \o DOT_HTML

\* make_animation_page: the file the detail page of a row is written to,
\* relative to the directory of the script.
DetailPath(row) == PAGES_DIR \o splitext_root(row.src) \o DOT_HTML

\* write_main_page: the file index page page_idx is written to.
IndexPath(k) == IF k = 0 THEN INDEX_HTML ELSE PAGE \o StrOfNat(k) \o DOT_HTML

\* A mutant of make_pagination_buttons: the button of a page links to the file
\* of the page after it.
make_pagination_buttons_shifted(current_page, total) ==
    [k \in 1..total |->
        [label |-> StrOfNat(k),
         href |-> IF k - 1 = current_page THEN Nil ELSE IndexPath(k)]]

\* make_pagination_buttons(current_page, total_pages): per page its label and
\* the file its button links to (None: the current page, not a link).
make_pagination_buttons(current_page, total) ==
    [k \in 1..total |->
        [label |-> StrOfNat(k),
         href |-> IF k - 1 = current_page THEN Nil ELSE IndexPath(k - 1)]]

\* A mutant of check_preview_exists: the preview file is looked up under the
\* source file name, extension included.
check_preview_exists_of_src(row, dir) == (row.src \o PREVIEW_RIV) \in dir

\* check_preview_exists(row), for the files dir of the riv directory.
check_preview_exists(row, dir) == (splitext_root(row.src) \o PREVIEW_RIV) \in dir

\* A mutant of TotalPages: the last, partly filled page is not counted.
TotalPagesRoundedDown(n) == n \div ANIMATIONS_PER_PAGE

\* total_pages = (len(rows) + ANIMATIONS_PER_PAGE - 1) // ANIMATIONS_PER_PAGE
TotalPages(n) == (n + ANIMATIONS_PER_PAGE - 1) \div ANIMATIONS_PER_PAGE

\* A mutant of PageRows: consecutive pages share a row.
PageRowsOverlapping(rs, k) ==
    LET start == IF k = 0 THEN 0 ELSE k * ANIMATIONS_PER_PAGE - 1
        end == k * ANIMATIONS_PER_PAGE + ANIMATIONS_PER_PAGE
    IN  SubSeq(rs, start + 1, IF end < Len(rs) THEN end ELSE Len(rs))

\* page_rows = rows[start:end]
PageRows(rs, k) ==
    LET start == k * ANIMATIONS_PER_PAGE
        end == start + ANIMATIONS_PER_PAGE
    IN  SubSeq(rs, start + 1, IF end < Len(rs) THEN end ELSE Len(rs))

\* make_main_canvas raises for a row: scale_dimensions is its only call that
\* can (the draw of the double rounding does not decide it).
CanvasRaises(row) == scale_dimensions(row.width, row.height, TRUE).exc # "none"

\* An output file as open(path, "w") and f.write leave it: the page kind, the
\* rows it shows, the arguments of its navigation and the navigation itself,
\* the number of viewports of a detail page, and whether its text was written
\* (an exception between open and write leaves the file empty).
DetailFile(row, dir) ==
    [path |-> DetailPath(row), kind |-> "detail", rows |-> <<row>>, page_idx |-> 0,
     total_pages |-> 0, viewports |-> IF check_preview_exists(row, dir) THEN 2 ELSE 1,
     nav |-> <<>>, complete |-> TRUE]
IndexFile(rs, k, total, complete) ==
    [path |-> IndexPath(k), kind |-> "index", rows |-> IF complete THEN rs ELSE <<>>,
     page_idx |-> k, total_pages |-> total, viewports |-> 0,
     nav |-> IF complete THEN make_pagination_buttons(k, total) ELSE <<>>,
     complete |-> complete]

(***************************************************************************)
(* The values of the variables before the operation they belong to has     *)
(* run, and of the variables a specification does not use.                 *)
(***************************************************************************)

NotScaled == [exc |-> "not called", width |-> RawVal(<<>>), height |-> RawVal(<<>>)]
ScaleIdle == width = Nil /\ height = Nil /\ scaled = NotScaled

NotParsed == [type |-> <<"?">>, name |-> <<"?">>, default |-> <<"?">>]
NoTypeName == [type |-> <<"?">>, name |-> <<"?">>]
ParseIdle ==
    /\ input_value = Nil /\ type_name = NoTypeName /\ parsed = NotParsed
    /\ input_idx = 1 /\ button_id = <<>> /\ rendered = "no"
    /\ controls = <<>> /\ bindings = <<>>

(***************************************************************************)
(* Page composition: write_main_page, make_main_canvas, make_script,       *)
(* make_pagination_buttons; make_animation_page and its generators         *)
(***************************************************************************)

CANVAS == <<"c", "a", "n", "v", "a", "s">>
MAIN_CANVAS == <<"m", "a", "i", "n", "_", "c", "a", "n", "v", "a", "s">>
PREVIEW_CANVAS == <<"p", "r", "e", "v", "i", "e", "w", "_", "c", "a", "n", "v", "a", "s">>
RIV_DIR == <<"r", "i", "v", "/">>
UP_RIV_DIR == <<".", ".", "/", "r", "i", "v", "/">>

RECURSIVE ConcatTo(_, _)
\* "".join(f[1], ..., f[n])
ConcatTo(f, n) == IF n = 0 THEN <<>> ELSE ConcatTo(f, n - 1) \o f[n]

\* The cells of a row for which parse_input_field calls random_color_hex.
IsColourCell(v) == IsFilled(v) /\ parse_input_spec(v).type = COL
\* The draw at hand for the call at slot, of the draws rnd of a composition.
DrawAt(rnd, slot) == IF slot \in DOMAIN rnd THEN rnd[slot] ELSE 0

\* collect_input_fields(row, button_id) and make_animation_inputs(row, prefix);
\* part names the draws of this call among the draws of the composition.
collect_input_fields(row, prefix, part, rnd) ==
    ConcatTo([i \in INPUT_RANGE |->
                 CellControls(row.inputs[i], i, prefix, DrawAt(rnd, <<part, i>>))],
             INPUT_COLUMNS)

\* A mutant of TriggerButton: a row with input cells gets no Trigger button.
TriggerButtonWithoutInputs(row, id) ==
    IF IsTruthy(row.trigger) /\ \A i \in INPUT_RANGE : ~IsTruthy(row.inputs[i])
    THEN <<id>> ELSE <<>>

\* The Trigger button of a row: ids of the buttons written.
TriggerButton(row, id) == IF IsTruthy(row.trigger) THEN <<id>> ELSE <<>>

\* make_main_canvas(idx, row): the canvas, the link to the detail page, the
\* button and the controls.
make_main_canvas(idx, row, rnd) ==
    [id |-> CANVAS \o StrOfNat(idx),
     size |-> scale_dimensions(row.width, row.height, TRUE),
     href |-> DetailPath(row),
     buttons |-> TriggerButton(row, ButtonId(idx)),
     controls |-> collect_input_fields(row, ButtonId(idx), idx, rnd)]

\* The const vmi line generate_text_input_js puts first when a cell is bound
\* through the view model.
BoundThroughVmi(sp) ==
    \/ sp.type \in {TXT, COL, V_NUM, V_BOL, IMG}
    \/ sp.type = LIST /\ sp.name # <<>> /\ ListMatches(sp.name)
NeedsVmi(row) ==
    \E i \in INPUT_RANGE :
        IsTruthy(row.inputs[i]) /\ BoundThroughVmi(parse_input_spec(row.inputs[i]))

\* generate_text_input_js(row, prefix, rive_var)
generate_text_input_js(row, prefix) ==
    (IF NeedsVmi(row) THEN <<Stmt("vmi", <<>>, "", "viewModelInstance", <<>>)>> ELSE <<>>)
    \o ConcatTo([i \in INPUT_RANGE |-> TextInputJs(row.inputs[i], i, prefix)], INPUT_COLUMNS)

\* generate_rive_js_block(...): the animation of one row of an index page and
\* the statements of its onLoad.
generate_rive_js_block(idx, row) ==
    [src |-> RIV_DIR \o row.src,
     canvas |-> CANVAS \o StrOfNat(idx),
     artboard |-> row.artboard,
     state_machine |-> row.state_machine,
     stmts |->
        generate_text_input_js(row, ButtonId(idx))
        \o (IF ~IsTruthy(row.state_machine) THEN <<>>
            ELSE (IF IsTruthy(row.trigger)
                  THEN <<Stmt("find", <<>>, "", "sm", row.trigger),
                         Stmt("listen", ButtonId(idx), "click", "sm.fire", row.trigger)>>
                  ELSE <<>>)
                 \o ConcatTo([i \in INPUT_RANGE |-> RiveBlockJs(row.inputs[i], i, ButtonId(idx))],
                             INPUT_COLUMNS))]

\* The text write_main_page writes: head, canvases, script, navigation, foot.
\* A canvas whose scaling raises leaves no text.
IndexDocument(rs, k, total, rnd) ==
    IF \E r \in 1..Len(rs) : CanvasRaises(rs[r])
    THEN [raised |-> TRUE]
    ELSE [raised |-> FALSE,
          head |-> "head.html",
          canvases |-> [r \in 1..Len(rs) |-> make_main_canvas(r - 1, rs[r], rnd)],
          script |-> [r \in 1..Len(rs) |-> generate_rive_js_block(r - 1, rs[r])],
          nav |-> make_pagination_buttons(k, total),
          foot |-> "html_foot"]

\* generate_animation_controls_js(row, canvas_type, rive_var); prefix is
\* "btn_" + canvas_type.
generate_animation_controls_js(row, prefix) ==
    (IF IsTruthy(row.trigger)
     THEN <<Stmt("find", <<>>, "", "sm", row.trigger),
            Stmt("listen", prefix, "click", "sm.fire", row.trigger)>>
     ELSE <<>>)
    \o ConcatTo([i \in INPUT_RANGE |-> AnimationControlsJs(row.inputs[i], i, prefix)],
                INPUT_COLUMNS)

\* One viewport of a detail page (generate_single_animation_html, the halves
\* of generate_dual_animation_html) and its script (generate_animation_js,
\* generate_preview_animation_js).
Viewport(row, canvas, prefix, src, part, rnd) ==
    [id |-> canvas,
     width |-> row.width, height |-> row.height,
     src |-> src,
     artboard |-> row.artboard,
     state_machine |-> row.state_machine,
     buttons |-> TriggerButton(row, prefix),
     controls |-> collect_input_fields(row, prefix, part, rnd),
     stmts |-> generate_text_input_js(row, prefix) \o generate_animation_controls_js(row, prefix)]

\* The text make_animation_page writes for a row; preview: the file
\* <base>_preview.riv exists.
DetailDocument(row, preview, rnd) ==
    [raised |-> FALSE,
     head |-> "head.html",
     viewports |->
        <<Viewport(row, MAIN_CANVAS, BTN_MAIN, UP_RIV_DIR \o row.src, 0, rnd)>>
        \o (IF preview
            THEN <<Viewport(row, PREVIEW_CANVAS, BTN_PREVIEW,
                            UP_RIV_DIR \o splitext_root(row.src) \o PREVIEW_RIV, 1, rnd)>>
            ELSE <<>>),
     foot |-> "html_foot"]

\* The calls of parse_input_field of one composition, each with a draw of
\* its own at hand: on an index page one per filled cell of each row (part:
\* the position of the row), on a detail page one per filled cell for each
\* viewport (part 0: main, 1: preview).
DrawSlots(kind, rs, preview) ==
    IF kind = "index"
    THEN {slot \in (0..(Len(rs) - 1)) \X INPUT_RANGE :
              IsFilled(rs[slot[1] + 1].inputs[slot[2]])}
    ELSE {slot \in (0..1) \X INPUT_RANGE :
              (slot[1] = 0 \/ preview) /\ IsFilled(rs[1].inputs[slot[2]])}

NotComposed == [raised |-> FALSE, head |-> "not composed"]

ComposeIdle ==
    /\ page_kind = "none" /\ page_rows = <<>> /\ nav_args = <<0, 0>>
    /\ preview_exists = FALSE /\ composed = 0
    /\ doc1 = NotComposed /\ doc2 = NotComposed

\* No value written to the colour property yet.
NotAssigned == [hi |-> "none", lo |-> "none"]
ColourIdle ==
    /\ picked = <<0, 0, 0>> /\ color_value = <<>> /\ argb = NotAssigned
    /\ color_loaded = FALSE

MainIdle ==
    /\ csv_exists = FALSE /\ table = <<>> /\ head_exists = FALSE /\ riv_dir = {}
    /\ pc = "idle" /\ rows = <<>> /\ row_i = 0 /\ total_pages = 0 /\ page_idx = 0
    /\ error = "" /\ written = <<>>

(***************************************************************************)
(* SpecScale: scale_dimensions applied to the width and height cells of a  *)
(* row.                                                                    *)
(***************************************************************************)

MaxWidthLen == 3
MaxHeightLen == 3
WidthChars == {"0", "2", "4", "-", "x"}
HeightChars == {"0", "1", "5", " "}

InitScale ==
    /\ ParseIdle /\ MainIdle /\ ComposeIdle /\ ColourIdle
    /\ width \in TextsUpTo(WidthChars, MaxWidthLen) \cup {Nil}
    /\ height \in TextsUpTo(HeightChars, MaxHeightLen) \cup {Nil}
    /\ scaled = NotScaled

ScaleDimensions ==
    /\ scaled = NotScaled
    /\ \E up \in BOOLEAN : scaled' = scale_dimensions(width, height, up)
    /\ UNCHANGED <<width, height>>
    /\ UNCHANGED <<parseVars, mainVars, composeVars, colourVars>>

NextScale == ScaleDimensions

SpecScale == InitScale /\ [][NextScale]_vars

Abs(n) == IF n < 0 THEN 0 - n ELSE n

\* C3: on integer cells, a width of exactly 200 returns the pair unchanged; any
\* other positive width w with height h returns (200, h') with h' a whole number
\* nearest to h*200/w; (400, 100) gives (200, 50).
C3_ScaleToNearest ==
    (scaled # NotScaled /\ IsIntText(width) /\ IsIntText(height) /\ IntValue(width) > 0) =>
        LET w == IntValue(width)
            h == IntValue(height)
        IN  /\ scaled.exc = "none"
            /\ scaled.width.int /\ scaled.height.int
            /\ w = 200 => (scaled.width.n = 200 /\ scaled.height.n = h)
            /\ w # 200 => /\ scaled.width.n = 200
                          /\ Abs(h * 200 - scaled.height.n * w) * 2 <= w
            /\ (w = 400 /\ h = 100) => scaled.height.n = 50

C3_Witness ==
    /\ width = <<"4", "0", "0">> /\ height = <<"1", "0", "0">>
    /\ scaled = [exc |-> "none", width |-> IntVal(200), height |-> IntVal(50)]

\* C4: scale_dimensions returns a pair for every width/height cell and never
\* raises; when a cell is not an integer the raw pair is returned unchanged.
C4_ScaleNeverRaises ==
    scaled # NotScaled =>
        /\ scaled.exc = "none"
        /\ ~(IsIntText(width) /\ IsIntText(height)) =>
               (scaled.width = RawVal(width) /\ scaled.height = RawVal(height))

(***************************************************************************)
(* SpecParse: the parsers applied to one input cell.                       *)
(***************************************************************************)

MaxRestLen == 3
\* The positions on an index page the cell's row is tried at.
MaxIdx == 1
CellTags == RecognizedTags \cup {<<>>, <<"f", "o", "o">>, <<" ", "n", "u", "m">>}
RestChars == {"a", " ", "(", ")", ":"}
\* The draws of random.randint(0, 0xFFFFFF) that are tried.
RandomDraws == {0, 16777215}

\* List cells, with and without the bracketed inner spec.
ListCells ==
    {LIST \o <<":">> \o r :
        r \in {<<"L">>, <<"L", "[", "]">>, <<"[", "h", "]">>, <<"L", "[", "h", "]">>,
               <<"L", "[", "h">>, <<"L", "[", " ", "]">>,
               <<"L", "[", "n", "u", "m", ":", "h", "]">>,
               <<" ", "L", " ", "[", " ", "n", "u", "m", " ", ":", " ", "h", " ", "]", " ">>,
               <<"L", "[", "f", "o", "o", ":", "h", "]">>}}

\* The cells: text with or without a tag and a colon in front, and the
\* missing cell.
InputCells ==
    {Nil} \cup ListCells \cup TextsUpTo(RestChars, MaxRestLen)
          \cup {t \o <<":">> \o r : t \in CellTags, r \in TextsUpTo(RestChars, MaxRestLen)}

InitParse ==
    /\ ScaleIdle /\ MainIdle /\ ComposeIdle /\ ColourIdle
    /\ input_value \in InputCells
    /\ type_name = NoTypeName
    /\ parsed = NotParsed
    /\ input_idx = 1 /\ button_id = <<>> /\ rendered = "no"
    /\ controls = <<>> /\ bindings = <<>>

ParseInputSpec ==
    /\ parsed = NotParsed
    /\ type_name' = parse_input_type_name(input_value)
    /\ parsed' = parse_input_spec(input_value)
    /\ UNCHANGED <<input_value, input_idx, button_id, rendered, controls, bindings>>
    /\ UNCHANGED <<scaleVars, mainVars, composeVars, colourVars>>

\* The cell, in column i of the row at position idx of an index page:
\* make_main_canvas writes its control, make_script its bindings.
RenderOnIndexPage ==
    /\ parsed # NotParsed /\ rendered = "no"
    /\ \E i \in INPUT_RANGE, idx \in 0..(MaxIdx - 1), rnd \in RandomDraws :
           /\ input_idx' = i
           /\ button_id' = ButtonId(idx)
           /\ controls' = CellControls(input_value, i, ButtonId(idx), rnd)
           /\ bindings' = IndexCellJs(input_value, i, ButtonId(idx))
    /\ rendered' = "index"
    /\ UNCHANGED <<input_value, type_name, parsed>>
    /\ UNCHANGED <<scaleVars, mainVars, composeVars, colourVars>>

\* The cell, in column i of the row of a detail page, for the main or the
\* preview viewport.
RenderOnDetailPage ==
    /\ parsed # NotParsed /\ rendered = "no"
    /\ \E i \in INPUT_RANGE, prefix \in {BTN_MAIN, BTN_PREVIEW}, rnd \in RandomDraws :
           /\ input_idx' = i
           /\ button_id' = prefix
           /\ controls' = CellControls(input_value, i, prefix, rnd)
           /\ bindings' = DetailCellJs(input_value, i, prefix)
    /\ rendered' = "detail"
    /\ UNCHANGED <<input_value, type_name, parsed>>
    /\ UNCHANGED <<scaleVars, mainVars, composeVars, colourVars>>

NextParse == ParseInputSpec \/ RenderOnIndexPage \/ RenderOnDetailPage

SpecParse == InitParse /\ [][NextParse]_vars

NoParens(s) == \A k \in 1..Len(s) : s[k] \notin {"(", ")"}

\* The cell read as 'kind:Name(default)': the kind ends at the first colon, the
\* cell ends with ")" and the default, free of parentheses, starts after the
\* "(" at position p.
IsNameDefaultForm(v, p) ==
    /\ v # Nil /\ Contains(v, ":")
    /\ p > SetMin(Positions(v, ":")) /\ p < Len(v)
    /\ v[p] = "(" /\ v[Len(v)] = ")"
    /\ NoParens(SubSeq(v, p + 1, Len(v) - 1))
FormName(v, p) == SubSeq(v, SetMin(Positions(v, ":")) + 1, p - 1)
FormDefault(v, p) == SubSeq(v, p + 1, Len(v) - 1)

\* The cell (after its kind) ends with a parenthesized suffix free of nested
\* parentheses.
HasDefaultSuffix(v) ==
    LET t == strip(v)
    IN  \E p \in 1..Len(t) :
            /\ Contains(t, ":") => p > SetMin(Positions(t, ":"))
            /\ t[p] = "(" /\ t[Len(t)] = ")"
            /\ NoParens(SubSeq(t, p + 1, Len(t) - 1))
PlainName(v) ==
    LET t == strip(v) IN IF Contains(t, ":") THEN AfterFirst(t, ":") ELSE t

\* C5 as claimed: parse_input_spec of 'kind:Name(default)' returns exactly Name
\* and exactly default; without a trailing parenthesized suffix the default is
\* None and the name is unchanged.
C5_RoundTripExact ==
    (parsed # NotParsed /\ input_value # Nil /\ input_value # <<>>) =>
        /\ \A p \in 1..Len(input_value) :
               IsNameDefaultForm(input_value, p) =>
                   /\ parsed.name = FormName(input_value, p)
                   /\ parsed.default = FormDefault(input_value, p)
        /\ ~HasDefaultSuffix(input_value) =>
               (parsed.default = Nil /\ parsed.name = strip(PlainName(input_value)))

\* C5 amended: parse_input_spec of 'kind:Name(default)' returns Name and default
\* with their leading and trailing blanks removed (exactly Name and default when
\* they have none); without a trailing parenthesized suffix the default is None
\* and the name is the text after the kind, blanks around it removed.
C5_RoundTripTrimmed ==
    (parsed # NotParsed /\ input_value # Nil /\ input_value # <<>>) =>
        /\ \A p \in 1..Len(input_value) :
               IsNameDefaultForm(input_value, p) =>
                   /\ parsed.name = strip(FormName(input_value, p))
                   /\ parsed.default = strip(FormDefault(input_value, p))
        /\ ~HasDefaultSuffix(input_value) =>
               (parsed.default = Nil /\ parsed.name = strip(PlainName(input_value)))

C5_Witness ==
    /\ input_value = NUM \o <<":", " ", "(", ")">>
    /\ parsed = [type |-> NUM, name |-> <<>>, default |-> <<>>]

\* C6 as claimed: the kind of a parsed cell is always a recognized tag; a tag
\* that is not recognized gives the numeric kind with the whole text as name,
\* and a cell without a colon the numeric kind with the trimmed text as name.
C6_KindAlwaysRecognized ==
    (parsed # NotParsed /\ input_value # Nil /\ input_value # <<>>) =>
        /\ type_name.type \in RecognizedTags
        /\ parsed.type \in RecognizedTags
        /\ (Contains(input_value, ":")
              /\ strip(BeforeFirst(input_value, ":")) \notin RecognizedTags) =>
               (type_name.type = NUM /\ type_name.name = strip(input_value))
        /\ ~Contains(input_value, ":") =>
               (type_name.type = NUM /\ type_name.name = strip(input_value))

\* C6 amended: the kind of a parsed cell with a colon is the trimmed text before
\* its first colon, recognized or not, and its name the trimmed text after that
\* colon: a tag that is not recognized is kept as the kind, with no fallback to
\* numeric.  A cell without a colon is parsed as numeric with the trimmed text
\* as name.
C6_KindIsTagAsWritten ==
    (parsed # NotParsed /\ input_value # Nil /\ input_value # <<>>) =>
        /\ parsed.type = type_name.type
        /\ Contains(input_value, ":") =>
               /\ type_name.type = strip(BeforeFirst(input_value, ":"))
               /\ type_name.name = strip(AfterFirst(input_value, ":"))
        /\ ~Contains(input_value, ":") =>
               (type_name.type = NUM /\ type_name.name = strip(input_value))

C6_Witness ==
    /\ input_value = <<"f", "o", "o", ":", "a">>
    /\ type_name = [type |-> <<"f", "o", "o">>, name |-> <<"a">>]
    /\ parsed.type = <<"f", "o", "o">>

\* The tag of the cell is not a recognized kind, or the cell is a list cell
\* whose name does not have the form <listName>[<innerSpec>].
HasUnknownTag(v) ==
    IsFilled(v) /\ Contains(v, ":") /\ strip(BeforeFirst(strip(v), ":")) \notin RecognizedTags
IsBrokenList(v) ==
    /\ IsFilled(v) /\ Contains(v, ":") /\ strip(BeforeFirst(strip(v), ":")) = LIST
    /\ LET n == strip(AfterFirst(strip(v), ":"))
       IN  ~(\E q \in 2..(Len(n) - 2) :
                /\ n[q] = "[" /\ n[Len(n)] = "]"
                /\ \A k \in 1..(q - 1) : n[k] # "[")
IsMalformed(v) == HasUnknownTag(v) \/ IsBrokenList(v)

\* C7: a cell with an unrecognized kind tag, or a list cell without the
\* bracket pattern, is inert on the index page and on the detail page: no
\* control is rendered for it and the script generated for it holds no event
\* listener and no property assignment.
C7_MalformedIsInert ==
    (rendered # "no" /\ IsMalformed(input_value)) =>
        /\ controls = <<>>
        /\ \A k \in 1..Len(bindings) : bindings[k].op \notin {"listen", "assign"}

C7_Witness ==
    /\ rendered = "index"
    /\ input_value = <<"f", "o", "o", ":", "a">>
    /\ controls = <<>>
    /\ bindings = <<Stmt("lookup", InputId(ButtonId(0), input_idx), "", "", <<>>),
                    Stmt("find", <<>>, "", "sm", <<"a">>)>>

\* The cell is a list cell: its tag is the list tag.  ListText is its text
\* after the colon, blanks around it removed.
IsListCell(v) ==
    IsFilled(v) /\ Contains(v, ":") /\ strip(BeforeFirst(strip(v), ":")) = LIST
ListText(v) == strip(AfterFirst(strip(v), ":"))
\* The text n reads L[inner], the "[" at position q: L is not empty and holds
\* no "[", inner is not empty.
IsBracketForm(n, q) ==
    /\ q >= 2 /\ q <= Len(n) - 2
    /\ n[q] = "[" /\ n[Len(n)] = "]"
    /\ \A k \in 1..(q - 1) : n[k] # "["
\* The inner spec read as k:n (k up to the first colon), or as n alone.
ExpectedInner(inner) ==
    IF \E c \in 1..Len(inner) : inner[c] = ":"
    THEN LET c == CHOOSE c \in 1..Len(inner) :
                      inner[c] = ":" /\ \A j \in 1..(c - 1) : inner[j] # ":"
         IN  [type |-> strip(SubSeq(inner, 1, c - 1)),
              name |-> strip(SubSeq(inner, c + 1, Len(inner)))]
    ELSE [type |-> NUM, name |-> strip(inner)]

\* C17: a list cell 'list:L[k:n]' is parsed into the list name L, the inner
\* kind k and the inner name n, and 'list:L[n]' into the inner kind numeric
\* and the inner name n (the names without the blanks around them); no
\* control is rendered for a list cell, and a list cell that does not have
\* the bracket form is bound to nothing.  For the bracket form the only
\* statement is the enumeration of the list L, written for the numeric inner
\* kind.
C17_ListSpecParsed ==
    (parsed # NotParsed /\ IsListCell(input_value)) =>
        LET n == ListText(input_value)
        IN  /\ parsed.type = LIST
            /\ \A q \in 1..Len(n) :
                   IsBracketForm(n, q) =>
                       /\ parsed.name = n
                       /\ ListName(parsed.name) = strip(SubSeq(n, 1, q - 1))
                       /\ parse_list_inner(ListInner(parsed.name))
                              = ExpectedInner(SubSeq(n, q + 1, Len(n) - 1))
                       /\ rendered # "no" =>
                              bindings =
                                  IF ExpectedInner(SubSeq(n, q + 1, Len(n) - 1)).type = NUM
                                  THEN <<Stmt("enumerate", <<>>, "", "vmi.list",
                                              strip(SubSeq(n, 1, q - 1)))>>
                                  ELSE <<>>
            /\ rendered # "no" =>
                   /\ controls = <<>>
                   /\ (~\E q \in 1..Len(n) : IsBracketForm(n, q)) => bindings = <<>>

C17_Witness ==
    /\ rendered = "index"
    /\ input_value = LIST \o <<":", " ", "L", " ", "[", " ", "n", "u", "m", " ", ":", " ", "h",
                                " ", "]", " ">>
    /\ parsed.type = LIST
    /\ ListName(parsed.name) = <<"L">>
    /\ parse_list_inner(ListInner(parsed.name)) = [type |-> NUM, name |-> <<"h">>]
    /\ controls = <<>>
    /\ bindings = <<Stmt("enumerate", <<>>, "", "vmi.list", <<"L">>)>>

\* The statements of the rendered cell that write a property from the element
\* with the given id: once when the animation loads, or at each event.
WritesFrom(id, op) == {j \in 1..Len(bindings) : bindings[j].op = op /\ bindings[j].source = id}

\* C18: for a numeric (num) cell, on an index page as well as on a detail
\* page, the script assigns the value of the cell's control to the
\* state-machine input of the cell's name once at load and again at every
\* "input" event of the control.
C18_NumSetAtLoadAndOnChange ==
    (rendered # "no" /\ IsFilled(input_value) /\ parsed.type = NUM) =>
        /\ \E j \in WritesFrom(InputId(button_id, input_idx), "assign") :
               bindings[j].api = "sm" /\ bindings[j].name = parsed.name
        /\ \E j \in WritesFrom(InputId(button_id, input_idx), "listen") :
               /\ bindings[j].api = "sm" /\ bindings[j].name = parsed.name
               /\ bindings[j].event = "input"

\* C19: the initial value of a rendered control is the default written in
\* parentheses in the cell whenever there is one (for a checkbox: it is
\* checked exactly when the default is a word for true); without a default
\* a numeric control starts at 80 and a colour control at a drawn colour.
C19_InitialValueIsDefault ==
    (rendered # "no" /\ controls # <<>>) =>
        /\ (parsed.default # Nil /\ controls[1].input # "checkbox") =>
               controls[1].value = parsed.default
        /\ (parsed.default # Nil /\ controls[1].input = "checkbox") =>
               controls[1].checked = (lower(strip(parsed.default)) \in CheckedWords)
        /\ (parsed.default = Nil /\ parsed.type = NUM) => controls[1].value = <<"8", "0">>
        /\ (parsed.default = Nil /\ parsed.type = COL) =>
               \E rnd \in RandomDraws : controls[1].value = random_color_hex(rnd)

\* C20: on every page the controls and the bindings of a column correspond:
\* the script writes a property from the element with the column's id (at
\* load or at an event) exactly when a control with that id is rendered for
\* the column; an absent or empty cell has neither a control nor a statement.
C20_ControlsMatchBindings ==
    rendered # "no" =>
        /\ (WritesFrom(InputId(button_id, input_idx), "assign")
                \cup WritesFrom(InputId(button_id, input_idx), "listen") # {})
             <=> (\E j \in 1..Len(controls) : controls[j].id = InputId(button_id, input_idx))
        /\ (~IsTruthy(input_value)) => (controls = <<>> /\ bindings = <<>>)

(***************************************************************************)
(* Spec: one generation run over a table.                                  *)
(***************************************************************************)

MaxRows == 17

Letters == <<"a", "b", "c", "d", "e">>
DOT_RIV == <<".", "r", "i", "v">>
DOT_REV == <<".", "r", "e", "v">>

\* The asset name of the table's row r: pairwise distinct for r <= 25.
AssetName(r) == <<Letters[((r - 1) \div 5) + 1], Letters[((r - 1) % 5) + 1]>>

WidthCycle == <<<<"4", "0", "0">>, <<"2", "0", "0">>, <<"x">>>>
StateMachineCycle == <<Nil, <<>>, <<" ">>, <<"S">>, <<" ", "S">>>>
TriggerCycle == <<<<>>, <<"g", "o">>>>
InputCycle == <<Nil, NUM \o <<":", "a">>, COL \o <<":", "a">>>>

\* Row r of a table: its own asset, and cells that vary with r.
PlainRow(r) ==
    [src |-> AssetName(r) \o DOT_RIV,
     width |-> WidthCycle[(r % 3) + 1],
     height |-> <<"1", "0", "0">>,
     state_machine |-> StateMachineCycle[(r % 5) + 1],
     artboard |-> <<>>,
     trigger |-> TriggerCycle[(r % 2) + 1],
     inputs |-> [i \in INPUT_RANGE |-> IF i = 1 THEN InputCycle[(r % 3) + 1] ELSE Nil]]

\* The tables: n plain rows, with one row at position pos changed to
\*   same_base   the asset name of row 1 with another extension,
\*   same_src    the source file name of row 1,
\*   no_ext      a source file name without extension,
\*   zero_width  a width of 0.
Flavours == {"plain", "same_base", "same_src", "no_ext", "zero_width"}
Table(n, flavour, pos) ==
    [r \in 1..n |->
        IF r # pos \/ flavour = "plain" THEN PlainRow(r)
        ELSE IF flavour = "same_base" THEN [PlainRow(r) EXCEPT !.src = AssetName(1) \o DOT_REV]
        ELSE IF flavour = "same_src" THEN [PlainRow(r) EXCEPT !.src = AssetName(1) \o DOT_RIV]
        ELSE IF flavour = "no_ext" THEN [PlainRow(r) EXCEPT !.src = AssetName(r)]
        ELSE [PlainRow(r) EXCEPT !.width = <<"0">>]]

Tables ==
    {Table(n, "plain", 1) : n \in 0..MaxRows}
    \cup UNION {{Table(n, f, pos) : f \in {"same_base", "same_src"}, pos \in 2..n} :
                 n \in 2..MaxRows}
    \cup UNION {{Table(n, f, pos) : f \in {"no_ext", "zero_width"}, pos \in 1..n} :
                 n \in 1..MaxRows}

Init ==
    /\ ScaleIdle /\ ParseIdle /\ ComposeIdle /\ ColourIdle
    /\ csv_exists \in BOOLEAN
    /\ head_exists \in BOOLEAN
    /\ table \in Tables
    /\ riv_dir \in {{}, {AssetName(1) \o PREVIEW_RIV}}
    /\ pc = "start"
    /\ rows = <<>> /\ row_i = 0 /\ total_pages = 0 /\ page_idx = 0
    /\ error = "" /\ written = <<>>

Abort(exc) == pc' = "aborted" /\ error' = exc

\* main, to the end of the normalisation loop: the table is opened and read,
\* reversed and normalised.
ReadTable ==
    /\ pc = "start"
    /\ IF csv_exists
       THEN /\ rows' = ProcessedRows(table)
            /\ row_i' = 1
            /\ pc' = "details"
            /\ UNCHANGED error
       ELSE /\ Abort("FileNotFoundError")
            /\ UNCHANGED <<rows, row_i>>
    /\ UNCHANGED <<csv_exists, table, head_exists, riv_dir, total_pages, page_idx, written>>
    /\ UNCHANGED <<scaleVars, parseVars, composeVars, colourVars>>

\* make_animation_page(rows[row_i]): get_html_head() is called before the
\* page file is opened.
MakeAnimationPage ==
    /\ pc = "details" /\ row_i <= Len(rows)
    /\ IF head_exists
       THEN /\ written' = Append(written, DetailFile(rows[row_i], riv_dir))
            /\ row_i' = row_i + 1
            /\ UNCHANGED <<pc, error>>
       ELSE /\ Abort("FileNotFoundError")
            /\ UNCHANGED <<written, row_i>>
    /\ UNCHANGED <<csv_exists, table, head_exists, riv_dir, rows, total_pages, page_idx>>
    /\ UNCHANGED <<scaleVars, parseVars, composeVars, colourVars>>

\* main, after the loop over the detail pages: the number of index pages.
PlanPages ==
    /\ pc = "details" /\ row_i > Len(rows)
    /\ total_pages' = TotalPages(Len(rows))
    /\ page_idx' = 0
    /\ pc' = "index"
    /\ UNCHANGED <<csv_exists, table, head_exists, riv_dir, rows, row_i, error, written>>
    /\ UNCHANGED <<scaleVars, parseVars, composeVars, colourVars>>

\* write_main_page(page_rows, page_idx, total_pages): the file is opened, then
\* the text is composed and written.  get_html_head() is served from its cache
\* here: a run that writes an index page has rows, and has read the head for
\* their detail pages.
WriteMainPage ==
    /\ pc = "index" /\ page_idx < total_pages
    /\ LET slice == PageRows(rows, page_idx)
       IN  IF \E k \in 1..Len(slice) : CanvasRaises(slice[k])
           THEN /\ written' = Append(written, IndexFile(slice, page_idx, total_pages, FALSE))
                /\ Abort("ZeroDivisionError")
                /\ UNCHANGED page_idx
           ELSE /\ written' = Append(written, IndexFile(slice, page_idx, total_pages, TRUE))
                /\ page_idx' = page_idx + 1
                /\ UNCHANGED <<pc, error>>
    /\ UNCHANGED <<csv_exists, table, head_exists, riv_dir, rows, row_i, total_pages>>
    /\ UNCHANGED <<scaleVars, parseVars, composeVars, colourVars>>

\* main, after the loop over the index pages: the summary is printed.
Finish ==
    /\ pc = "index" /\ page_idx = total_pages
    /\ pc' = "done"
    /\ UNCHANGED <<csv_exists, table, head_exists, riv_dir, rows, row_i, total_pages,
                   page_idx, error, written>>
    /\ UNCHANGED <<scaleVars, parseVars, composeVars, colourVars>>

Next == ReadTable \/ MakeAnimationPage \/ PlanPages \/ WriteMainPage \/ Finish

Spec == Init /\ [][Next]_vars

Min2(a, b) == IF a < b THEN a ELSE b

\* The index files written in full, and the one of page k.
IndexWrites == {k \in 1..Len(written) : written[k].kind = "index" /\ written[k].complete}
DetailWrites == {k \in 1..Len(written) : written[k].kind = "detail"}
IndexWriteOf(k) == CHOOSE w \in IndexWrites : written[w].page_idx = k

RECURSIVE ConcatPages(_)
ConcatPages(k) ==
    IF k = 0 THEN <<>> ELSE ConcatPages(k - 1) \o written[IndexWriteOf(k - 1)].rows

\* C1: a run over N rows writes exactly ceil(N/8) index pages; page k holds the
\* contiguous slice rows[k*8 .. k*8+7] of the processed rows, cut at N, which
\* is never empty; the pages in ascending order concatenate to the processed
\* rows; for N = 0 no index page is written.
C1_PagesPartitionRows ==
    LET N == Len(rows)
        P == ANIMATIONS_PER_PAGE
    IN  /\ \A w \in IndexWrites :
               LET k == written[w].page_idx
               IN  /\ k * P < N
                   /\ Len(written[w].rows) = Min2(P, N - k * P)
                   /\ \A s \in 1..Len(written[w].rows) : written[w].rows[s] = rows[k * P + s]
                   /\ \A v \in IndexWrites : written[v].page_idx = k => v = w
        /\ pc = "done" =>
               /\ \E c \in 0..N :
                      /\ (c = 0 /\ N = 0) \/ ((c - 1) * P < N /\ N <= c * P)
                      /\ Cardinality(IndexWrites) = c
                      /\ {written[w].page_idx : w \in IndexWrites} = 0..(c - 1)
                      /\ ConcatPages(c) = rows
               /\ N = 0 => \A w \in 1..Len(written) : written[w].kind # "index"

C1_Witness ==
    /\ pc = "done" /\ Len(rows) = 17 /\ Cardinality(IndexWrites) = 3
    /\ Len(written[IndexWriteOf(2)].rows) = 1

\* C2: the rows are processed in the reverse of their file order: the row at
\* file position r (0-based) of N rows is the asset at position N-1-r, shown on
\* index page (N-1-r) div 8 at slot (N-1-r) mod 8, and the last row of the file
\* is the first asset of index.html.
C2_ReverseFileOrder ==
    LET N == Len(table)
        P == ANIMATIONS_PER_PAGE
    IN  /\ pc \notin {"start", "aborted"} => Len(rows) = N
        /\ \A w \in IndexWrites : \A r \in 0..(N - 1) :
               (written[w].page_idx = (N - 1 - r) \div P) =>
                   /\ Len(written[w].rows) > (N - 1 - r) % P
                   /\ written[w].rows[((N - 1 - r) % P) + 1].src = table[r + 1].src
                   /\ written[w].rows[((N - 1 - r) % P) + 1].width = table[r + 1].width
        /\ pc = "done" =>
               \A r \in 0..(N - 1) : \E w \in IndexWrites :
                   written[w].page_idx = (N - 1 - r) \div P
        /\ \A w \in IndexWrites :
               written[w].path = INDEX_HTML => written[w].rows[1].src = table[N].src

C2_Witness ==
    /\ pc = "done" /\ Len(table) = 17
    /\ written[IndexWriteOf(0)].path = INDEX_HTML
    /\ written[IndexWriteOf(0)].rows[1].src = table[17].src
    /\ written[IndexWriteOf(2)].rows[1].src = table[1].src
    /\ written[IndexWriteOf(1)].rows[3].src = table[7].src

\* C8: when the head template or the table is missing, the run aborts with an
\* error and no output file is created or modified, whatever the number of rows.
C8_MissingInputAborts ==
    (~head_exists \/ ~csv_exists) =>
        /\ written = <<>>
        /\ pc # "done"

SrcsDistinct(t) == \A a, b \in 1..Len(t) : (a # b => t[a].src # t[b].src) /\ t[a].src # <<>>
BasesDistinct(t) ==
    \A a, b \in 1..Len(t) :
        (a # b => splitext_root(t[a].src) # splitext_root(t[b].src)) /\ t[a].src # <<>>

\* Every output file was opened for writing once, and once the detail pages
\* are written there is one per asset, pages/<base filename>.html.
OneDetailFilePerAsset ==
    /\ \A a, b \in 1..Len(written) : a # b => written[a].path # written[b].path
    /\ pc \in {"index", "done"} =>
           /\ Cardinality({written[w].path : w \in DetailWrites}) = Len(table)
           /\ \A r \in 1..Len(table) : \E w \in DetailWrites :
                  /\ written[w].path = PAGES_DIR \o splitext_root(table[r].src) \o DOT_HTML
                  /\ written[w].rows[1].src = table[r].src

\* C10 as claimed: over a table whose source file names are non-empty and
\* pairwise distinct, one detail file is written per asset, named after its
\* base file name, and no output file is written twice.
C10_DistinctSrcsDistinctPages == SrcsDistinct(table) => OneDetailFilePerAsset

\* C10 amended: over a table whose source file names are plain file names
\* with pairwise distinct base names (the names without their last
\* extension), one detail file is written per asset, pages/<base>.html, and no
\* output file is written twice.
C10_DistinctBasesDistinctPages == BasesDistinct(table) => OneDetailFilePerAsset

C10_Witness ==
    /\ pc = "done" /\ Len(table) = 17 /\ BasesDistinct(table)
    /\ Cardinality(DetailWrites) = 17
    /\ \E r \in 1..17 : table[r].src = AssetName(r)

\* The riv directory holds <base>_preview.riv for the base of the source file
\* name: the name without its extension, if it has one.
HasPreviewFile(src) ==
    \E k \in 1..Len(src) :
        /\ (SubSeq(src, 1, k) \o PREVIEW_RIV) \in riv_dir
        /\ \/ k = Len(src) /\ \A d \in 1..Len(src) : src[d] # "."
           \/ k < Len(src) /\ src[k + 1] = "." /\ \A d \in (k + 2)..Len(src) : src[d] # "."
ZeroWidthRow == \E r \in 1..Len(table) : table[r].width = <<"0">>

\* C13: the detail page of an asset has two viewports exactly when the file
\* <base>_preview.riv exists in the riv directory, and one otherwise; a
\* missing preview file is no error: with the table and the head template
\* present every row gets its detail page, and a run only aborts for a missing
\* table or head template or for a width of zero.
C13_PreviewDecidesViewports ==
    /\ \A w \in DetailWrites :
           written[w].viewports = IF HasPreviewFile(written[w].rows[1].src) THEN 2 ELSE 1
    /\ (csv_exists /\ head_exists /\ pc \in {"index", "done", "aborted"}) =>
           Cardinality(DetailWrites) = Len(table)
    /\ pc = "aborted" => (~csv_exists \/ ~head_exists \/ ZeroWidthRow)

C13_Witness ==
    /\ pc = "done" /\ riv_dir # {} /\ Len(table) = 3
    /\ \E w \in DetailWrites :
           written[w].rows[1].src = AssetName(1) \o DOT_RIV /\ written[w].viewports = 2
    /\ \E w \in DetailWrites :
           written[w].rows[1].src = AssetName(2) \o DOT_RIV /\ written[w].viewports = 1

\* The cell is absent, empty or of blanks only.
IsBlank(cell) == cell = Nil \/ \A k \in 1..Len(cell) : cell[k] = " "

\* C16: once the table is read, the row at position k is the row of the table
\* at position N+1-k with its state_machine replaced by 'State Machine 1' when
\* that field is absent, empty or of blanks only, and with its state_machine as
\* it was otherwise; no other field differs.
C16_BlankStateMachineDefaulted ==
    (csv_exists /\ pc # "start") =>
        /\ Len(rows) = Len(table)
        /\ \A k \in 1..Len(rows) :
               LET t == table[Len(table) + 1 - k]
               IN  /\ rows[k].state_machine =
                          IF IsBlank(t.state_machine) THEN STATE_MACHINE_1 ELSE t.state_machine
                   /\ [rows[k] EXCEPT !.state_machine = t.state_machine] = t

C16_Witness ==
    /\ pc = "done" /\ Len(table) = 5
    /\ table[2].state_machine = <<" ">> /\ table[4].state_machine = <<" ", "S">>
    /\ table[5].state_machine = Nil
    /\ rows[4].state_machine =
           <<"S", "t", "a", "t", "e", " ", "M", "a", "c", "h", "i", "n", "e", " ", "1">>
    /\ rows[2].state_machine = <<" ", "S">>
    /\ rows[1].state_machine =
           <<"S", "t", "a", "t", "e", " ", "M", "a", "c", "h", "i", "n", "e", " ", "1">>

\* The file index page j is linked under.
LinkedFile(j) == IF j = 0 THEN INDEX_HTML ELSE PAGE \o StrOfNat(j) \o DOT_HTML

\* C14: in a run that wrote its k index pages, the navigation of page i has
\* k entries, labelled 1..k in this order; the entry of page i itself is the
\* only one without a link, and the entry of every other page j links to the
\* file page j was written to, index.html for j = 0 and page<j>.html
\* otherwise.  While the pages are written, each has as many entries as the
\* run has planned pages.
C14_NavigationLinksPages ==
    /\ \A w \in IndexWrites : Len(written[w].nav) = total_pages
    /\ pc = "done" =>
           \A w \in IndexWrites :
               LET nav == written[w].nav
                   i == written[w].page_idx
               IN  /\ Len(nav) = Cardinality(IndexWrites)
                   /\ \A j \in 0..(Len(nav) - 1) :
                          /\ nav[j + 1].label = StrOfNat(j + 1)
                          /\ (nav[j + 1].href = Nil) <=> (j = i)
                          /\ j # i =>
                                 /\ nav[j + 1].href = LinkedFile(j)
                                 /\ \E v \in IndexWrites :
                                        /\ written[v].page_idx = j
                                        /\ written[v].path = nav[j + 1].href

C14_Witness ==
    /\ pc = "done" /\ Cardinality(IndexWrites) = 3
    /\ written[IndexWriteOf(1)].nav =
           << [label |-> <<"1">>, href |-> <<"i", "n", "d", "e", "x", ".", "h", "t", "m", "l">>],
              [label |-> <<"2">>, href |-> Nil],
              [label |-> <<"3">>, href |-> <<"p", "a", "g", "e", "2", ".", "h", "t", "m", "l">>] >>

(***************************************************************************)
(* SpecCompose: one page composed twice from the same inputs.              *)
(***************************************************************************)

\* The rows of a composed page beyond its first.
MaxMoreRows == 1

ComposeInputs ==
    {Nil, <<>>, NUM \o <<":", "a", "(", "5", ")">>, COL \o <<":", "a">>, TXT \o <<":", "a">>,
     <<"f", "o", "o", ":", "a">>}

\* A normalised row with the given cells.
ComposeRow(name, w, trig, in1, in2) ==
    [src |-> name \o DOT_RIV, width |-> w, height |-> <<"1", "0", "0">>,
     state_machine |-> STATE_MACHINE_1, artboard |-> <<>>, trigger |-> trig,
     inputs |-> [i \in INPUT_RANGE |-> IF i = 1 THEN in1 ELSE IF i = 2 THEN in2 ELSE Nil]]

FirstRows ==
    {ComposeRow(AssetName(1), w, t, a, b) :
        w \in {<<"4", "0", "0">>, <<"x">>}, t \in {Nil, <<>>, <<"g", "o">>},
        a \in ComposeInputs, b \in {Nil, COL \o <<":", "b">>}}
MoreRows ==
    {ComposeRow(AssetName(2), <<"2", "0", "0">>, <<>>, a, Nil) :
        a \in {NUM \o <<":", "a">>, COL \o <<":", "a">>}}

ComposePages ==
    UNION {{<<f>> \o m : f \in FirstRows, m \in [1..n -> MoreRows]} : n \in 0..MaxMoreRows}

InitCompose ==
    /\ ScaleIdle /\ ParseIdle /\ MainIdle /\ ColourIdle
    /\ page_kind \in {"index", "detail"}
    /\ page_rows \in ComposePages
    /\ page_kind = "detail" => Len(page_rows) = 1
    /\ nav_args \in {<<0, 2>>, <<1, 2>>}
    /\ page_kind = "detail" => nav_args = <<0, 2>>
    /\ preview_exists \in BOOLEAN
    /\ page_kind = "index" => preview_exists = FALSE
    /\ composed = 0
    /\ doc1 = NotComposed /\ doc2 = NotComposed

\* The document of one composition, for the draws rnd at hand for its cells.
Document(rnd) ==
    IF page_kind = "index"
    THEN IndexDocument(page_rows, nav_args[1], nav_args[2], rnd)
    ELSE DetailDocument(page_rows[1], preview_exists, rnd)

\* write_main_page composes the text of an index page.
ComposeIndexPage ==
    /\ page_kind = "index" /\ composed < 2
    /\ \E rnd \in [DrawSlots(page_kind, page_rows, preview_exists) -> RandomDraws] :
           \E document \in {Document(rnd)} :
               IF composed = 0
               THEN doc1' = document /\ UNCHANGED doc2
               ELSE doc2' = document /\ UNCHANGED doc1
    /\ composed' = composed + 1
    /\ UNCHANGED <<page_kind, page_rows, nav_args, preview_exists>>
    /\ UNCHANGED <<scaleVars, parseVars, mainVars, colourVars>>

\* make_animation_page composes the text of a detail page.
ComposeDetailPage ==
    /\ page_kind = "detail" /\ composed < 2
    /\ \E rnd \in [DrawSlots(page_kind, page_rows, preview_exists) -> RandomDraws] :
           \E document \in {Document(rnd)} :
               IF composed = 0
               THEN doc1' = document /\ UNCHANGED doc2
               ELSE doc2' = document /\ UNCHANGED doc1
    /\ composed' = composed + 1
    /\ UNCHANGED <<page_kind, page_rows, nav_args, preview_exists>>
    /\ UNCHANGED <<scaleVars, parseVars, mainVars, colourVars>>

NextCompose == ComposeIndexPage \/ ComposeDetailPage

SpecCompose == InitCompose /\ [][NextCompose]_vars

HasColourCell(rs) == \E r \in 1..Len(rs), i \in INPUT_RANGE : IsColourCell(rs[r].inputs[i])

\* C9 as claimed: two compositions of a page from the same inputs give the
\* same document, rows with colour inputs included.
C9_CompositionDeterministic == composed = 2 => doc1 = doc2

\* C9 amended: two compositions of a page from the same inputs give the same
\* document when no row of the page has a colour input; with a colour input
\* the two documents may differ, in the initial value of its colour control.
C9_DeterministicWithoutColour ==
    (composed = 2 /\ ~HasColourCell(page_rows)) => doc1 = doc2

C9_Witness ==
    /\ composed = 2 /\ page_kind = "index" /\ Len(page_rows) = 2
    /\ ~HasColourCell(page_rows)
    /\ page_rows[1].inputs[1] = NUM \o <<":", "a", "(", "5", ")">>
    /\ doc1 = doc2 /\ ~doc1.raised
    /\ Len(doc1.canvases[1].controls) = 1

\* A document that was composed, and its assets: the canvases of an index
\* page, the viewports of a detail page.
IsComposed(doc) == doc # NotComposed /\ ~doc.raised
Assets(doc) == IF page_kind = "index" THEN doc.canvases ELSE doc.viewports
\* The statements generated for asset a of the document.
StmtsOf(doc, a) == IF page_kind = "index" THEN doc.script[a].stmts ELSE doc.viewports[a].stmts
\* The row asset a of the page shows.
RowOf(a) == IF page_kind = "index" THEN page_rows[a] ELSE page_rows[1]

\* The element ids of one asset, and of the whole document, in page order.
ElementIdsOf(asset) ==
    <<asset.id>> \o asset.buttons \o [k \in 1..Len(asset.controls) |-> asset.controls[k].id]
ElementIds(doc) ==
    ConcatTo([a \in 1..Len(Assets(doc)) |-> ElementIdsOf(Assets(doc)[a])], Len(Assets(doc)))
NoDuplicates(seq) == \A a, b \in 1..Len(seq) : a # b => seq[a] # seq[b]

\* C11: on every composed page the element ids are pairwise distinct: the
\* canvas, button and input ids of an asset of an index page differ from each
\* other and from the ids of every other asset of the page, and the ids of the
\* main and of the preview viewport of a detail page are disjoint.
C11_ElementIdsDistinct ==
    /\ IsComposed(doc1) => NoDuplicates(ElementIds(doc1))
    /\ IsComposed(doc2) => NoDuplicates(ElementIds(doc2))

C11_Witness ==
    /\ composed = 2 /\ page_kind = "index" /\ Len(page_rows) = 2
    /\ ElementIds(doc1) =
           << <<"c", "a", "n", "v", "a", "s", "0">>,
              <<"b", "t", "n", "0">>,
              <<"b", "t", "n", "0", "_", "i", "n", "p", "u", "t", "1">>,
              <<"b", "t", "n", "0", "_", "i", "n", "p", "u", "t", "2">>,
              <<"c", "a", "n", "v", "a", "s", "1">>,
              <<"b", "t", "n", "1", "_", "i", "n", "p", "u", "t", "1">> >>

\* The trigger field of the row names a trigger.
HasTrigger(row) == row.trigger # Nil /\ row.trigger # <<>>

\* For asset a of the document: with a trigger, its Trigger button is
\* rendered and the script finds the state-machine input of that name and
\* fires it on a click of that button; without, there is neither.
TriggerIsBound(doc, a) ==
    LET asset == Assets(doc)[a]
        stmts == StmtsOf(doc, a)
        row == RowOf(a)
    IN  IF HasTrigger(row)
        THEN /\ Len(asset.buttons) = 1
             /\ \E k \in 1..Len(stmts) : stmts[k] = Stmt("find", <<>>, "", "sm", row.trigger)
             /\ \E k \in 1..Len(stmts) :
                    stmts[k] = Stmt("listen", asset.buttons[1], "click", "sm.fire", row.trigger)
        ELSE /\ asset.buttons = <<>>
             /\ \A k \in 1..Len(stmts) : stmts[k].api # "sm.fire" /\ stmts[k].event # "click"

\* C12: for every asset with a non-empty trigger field, on the index page and
\* in the main and the preview viewport of the detail page, a Trigger button
\* is rendered and a click on it fires the state-machine input the field
\* names, whatever the input cells of the row; with an empty trigger field
\* there is no button and no such binding.
C12_TriggerAlwaysBound ==
    /\ IsComposed(doc1) => \A a \in 1..Len(Assets(doc1)) : TriggerIsBound(doc1, a)
    /\ IsComposed(doc2) => \A a \in 1..Len(Assets(doc2)) : TriggerIsBound(doc2, a)

C12_Witness ==
    /\ composed = 2 /\ page_kind = "detail" /\ preview_exists
    /\ page_rows[1].trigger = <<"g", "o">>
    /\ page_rows[1].inputs[1] = COL \o <<":", "a">>
    /\ Len(doc1.viewports) = 2
    /\ doc1.viewports[1].buttons = <<BTN_MAIN>>
    /\ doc1.viewports[2].buttons = <<BTN_PREVIEW>>
    /\ \E k \in 1..Len(doc1.viewports[2].stmts) :
           doc1.viewports[2].stmts[k] =
               Stmt("listen", BTN_PREVIEW, "click", "sm.fire", <<"g", "o">>)

(***************************************************************************)
(* SpecColour: the binding of a colour control in a loaded page.           *)
(***************************************************************************)

\* The values of a colour channel that are tried.
Channels == {0, 1, 15, 16, 128, 171, 255}

\* The page as written: the control holds the colour parse_input_field drew
\* with random_color_hex().
InitColour ==
    /\ ScaleIdle /\ ParseIdle /\ MainIdle /\ ComposeIdle
    /\ \E rnd \in RandomDraws :
           /\ picked = <<rnd \div 65536, (rnd \div 256) % 256, rnd % 256>>
           /\ color_value = random_color_hex(rnd)
    /\ argb = NotAssigned
    /\ color_loaded = FALSE

\* onLoad of the animation: the initial assignment of the colour binding.
OnLoad ==
    /\ ~color_loaded
    /\ argb' = ColourArgb(color_value)
    /\ color_loaded' = TRUE
    /\ UNCHANGED <<picked, color_value>>
    /\ UNCHANGED <<scaleVars, parseVars, mainVars, composeVars>>

\* The user picks a colour: the input event listener of the binding runs.
OnColourInput ==
    /\ color_loaded
    /\ \E r \in Channels, g \in Channels, b \in Channels :
           /\ picked' = <<r, g, b>>
           /\ color_value' = ColourValue(r, g, b)
           /\ argb' = ColourArgb(ColourValue(r, g, b))
    /\ UNCHANGED color_loaded
    /\ UNCHANGED <<scaleVars, parseVars, mainVars, composeVars>>

NextColour == OnLoad \/ OnColourInput

SpecColour == InitColour /\ [][NextColour]_vars

\* C15: for the colour #RRGGBB of a colour control, the value the binding
\* writes to the view-model colour property is 0xFF000000 | (R<<16 | G<<8 | B),
\* that is 4278190080 + 65536*R + 256*G + B = 65536 * (65280 + R) + (256*G + B),
\* at load and after every input event.
C15_ColourIsOpaqueArgb ==
    color_loaded =>
        /\ argb = Number(65280 + picked[1], 256 * picked[2] + picked[3])
        /\ Len(color_value) = 7 /\ color_value[1] = "#"

\* #ab0fff gives 0xFFAB0FFF = 65536 * 65451 + 4095.
C15_Witness ==
    /\ color_loaded /\ picked = <<171, 15, 255>>
    /\ color_value = <<"#", "a", "b", "0", "f", "f", "f">>
    /\ argb = [hi |-> 65451, lo |-> 4095]

====
